---- MODULE Spec2Model ----
(***************************************************************************)
(* A model of the GEP workbook analysis scripts:                           *)
(*   backend/excel_reader.py   the extractor (profiler, relationship       *)
(*                             inference, CSV and JSON export)             *)
(*   backend/sql_generator.py  the SQL type inference                      *)
(*                                                                         *)
(* Python strings are modelled as tuples of one-character strings, so that *)
(* substring tests, replacements and str() conversions are computed.       *)
(* A percentage (len(common) / len(set1)) * 100 is modelled as the exact   *)
(* fraction in lowest terms; for the small cardinalities of the model the  *)
(* double the code computes compares exactly as the fraction does.         *)
(***************************************************************************)
EXTENDS Integers, Sequences, FiniteSets, TLC

VARIABLES
    workbook,                \* the sheets of the .xlsx file (the input)
    pc,                      \* position of analyze_excel_file
    hash_seed,               \* the process's string hash seed (PYTHONHASHSEED)
    all_sheets_data,         \* dict sheet name -> DataFrame, in insertion order
    sheet_structures,        \* dict sheet name -> {shape, columns}
    potential_relationships, \* the list analyze_relationships returned
    csv_files,               \* the CSV files on disk
    json_file,               \* excel_analysis.json on disk
    prev_json,               \* excel_analysis.json as the previous run left it
    exported,                \* sheets the export loop has written
    sim_in, sim_out,         \* a call of calculate_column_similarity
    type_in, type_out,       \* a call of map_pandas_to_sql_type
    result,                  \* what analyze_excel_file returned
    script,                  \* the generator script that runs, if one does
    gen_pc,                  \* position of the generator's top-level function
    analysis,                \* the generator's analysis_data (the JSON loaded)
    all_data,                \* the generator's dict sheet name -> DataFrame
    sql_script,              \* the statements of the generated SQL script
    sql_file,                \* gep_demo_complete.sql on disk
    report_file              \* comprehensive_analysis_report.md on disk

vars == <<workbook, pc, hash_seed, all_sheets_data, sheet_structures,
          potential_relationships, csv_files, json_file, prev_json,
          exported, sim_in, sim_out, type_in, type_out, result, script,
          gen_pc, analysis, all_data, sql_script, sql_file, report_file>>

generator_vars ==
    <<script, gen_pc, analysis, all_data, sql_script, sql_file, report_file>>

(***************************************************************************)
(* Bounds of the model.                                                    *)
(***************************************************************************)
MaxRows == 6        \* rows of a sheet of a one-sheet workbook
MaxRelRows == 3     \* rows of a sheet of a two-sheet workbook
MaxSimLen == 3      \* rows of a column handed to calculate_column_similarity
MaxTokens == 2      \* name fragments a column name is built from

(***************************************************************************)
(* Strings.                                                                *)
(***************************************************************************)
Alphabet ==
    <<" ", "(", ")", ".", "/", "0", "1", "2", "3", "4", "5", "6", "7", "8", "9",
      "A", "B", "C", "D", "E", "F", "G", "H", "I", "J", "K", "L", "M", "N", "O",
      "P", "Q", "R", "S", "T", "U", "V", "W", "X", "Y", "Z", "[", "]", "_",
      "a", "b", "c", "d", "e", "f", "g", "h", "i", "j", "k", "l", "m", "n", "o",
      "p", "q", "r", "s", "t", "u", "v", "w", "x", "y", "z">>

CharCode(c) == CHOOSE i \in 1..Len(Alphabet) : Alphabet[i] = c

\* a < b in the order of Python's str comparison
RECURSIVE StrLess(_, _)
StrLess(a, b) ==
    IF Len(b) = 0 THEN FALSE
    ELSE IF Len(a) = 0 THEN TRUE
    ELSE IF a[1] = b[1] THEN StrLess(Tail(a), Tail(b))
    ELSE CharCode(a[1]) < CharCode(b[1])

\* str(n) of an int n >= 0
RECURSIVE IntStr(_)
IntStr(n) ==
    IF n < 10 THEN <<Alphabet[CharCode("0") + n]>>
    ELSE IntStr(n \div 10) \o IntStr(n % 10)

(***************************************************************************)
(* Cells.  t is the Python type of the value: "nan" (a missing entry),     *)
(* "int", "float" (the integral float n.0) or "str".                       *)
(***************************************************************************)
NaN == [t |-> "nan", n |-> 0, s |-> <<>>]
IntCell(n) == [t |-> "int", n |-> n, s |-> <<>>]
FloatCell(n) == [t |-> "float", n |-> n, s |-> <<>>]
StrCell(s) == [t |-> "str", n |-> 0, s |-> s]

\* str(val), which is also what Series.astype(str) gives for each entry
PyStr(c) ==
    CASE c.t = "int" -> IntStr(c.n)
      [] c.t = "float" -> IntStr(c.n) \o <<".", "0">>
      [] c.t = "str" -> c.s
      [] OTHER -> <<"n", "a", "n">>

IsNull(c) == c.t = "nan"

\* Series.dropna()
DropNa(col) == SelectSeq(col, LAMBDA c : ~IsNull(c))

\* Series.head(k)
head(col, k) == SubSeq(col, 1, IF Len(col) < k THEN Len(col) ELSE k)

Range(seq) == {seq[i] : i \in 1..Len(seq)}

(***************************************************************************)
(* pd.read_excel: a column of integers is int64; a missing cell makes a    *)
(* numeric column float64 (every integer n becomes n.0); a text cell makes *)
(* it object, the cells kept as they are.                                  *)
(***************************************************************************)
ReadColumn(raw) ==
    IF \E i \in 1..Len(raw) : raw[i].t = "str" THEN raw
    ELSE IF \E i \in 1..Len(raw) : raw[i].t = "nan"
         THEN [i \in 1..Len(raw) |->
                  IF raw[i].t = "int" THEN FloatCell(raw[i].n) ELSE raw[i]]
         ELSE raw

Dtype(col) ==
    IF Len(col) = 0 THEN "object"
    ELSE IF \E i \in 1..Len(col) : col[i].t = "str" THEN "object"
    ELSE IF \A i \in 1..Len(col) : col[i].t = "int" THEN "int64"
    ELSE "float64"

\* the DataFrame of a sheet: columns (names), data (one Series per column), nrows
ReadExcel(sheet) ==
    [columns |-> sheet.columns,
     data |-> [k \in 1..Len(sheet.columns) |-> ReadColumn(sheet.data[k])],
     nrows |-> sheet.nrows]

(***************************************************************************)
(* The column profiler (analyze_excel_file, the loop over df.columns).     *)
(***************************************************************************)
SampleSize == 5

\* Series.count()
count(col) == Len(DropNa(col))

\* Series.isnull().sum()
null_count(col) == Len(col) - Len(DropNa(col))

\* Series.nunique(): the distinct non-missing values
nunique(col) == Cardinality(Range(DropNa(col)))

\* a variant that takes the head of the column without dropping its missing values
sample_values_with_missing(col) ==
    IF Len(col) # 0 THEN head(col, SampleSize) ELSE <<>>

\* df[col].dropna().head(5).tolist() if not df[col].empty else []
sample_values(col) ==
    IF Len(col) # 0 THEN head(DropNa(col), SampleSize) ELSE <<>>

\* a variant that compares the distinct count with the non-missing count
unique_among_present(unique_count, nulls, len_df) ==
    unique_count = len_df - nulls

\* the test "column might be a key"
potential_primary_key(unique_count, nulls, len_df) ==
    unique_count = len_df /\ nulls = 0

col_info(df, k) ==
    LET col == df.data[k] IN
    [dtype |-> Dtype(col),
     non_null_count |-> count(col),
     null_count |-> null_count(col),
     unique_count |-> nunique(col),
     sample_values |-> sample_values(col),
     potential_primary_key |->
         potential_primary_key(nunique(col), null_count(col), df.nrows)]

\* sheet_structures[sheet_name]; columns is a dict in df.columns order
sheet_structure(df) ==
    [shape |-> <<df.nrows, Len(df.columns)>>,
     columns |-> [k \in 1..Len(df.columns) |->
                     [name |-> df.columns[k], info |-> col_info(df, k)]]]

(***************************************************************************)
(* Percentages: the fraction num/den in lowest terms.                      *)
(***************************************************************************)
RECURSIVE Gcd(_, _)
Gcd(a, b) == IF b = 0 THEN a ELSE Gcd(b, a % b)

Frac(a, b) == [num |-> a \div Gcd(a, b), den |-> b \div Gcd(a, b)]

PctLess(p, q) == p.num * q.den < q.num * p.den

PctLeq(p, q) == p.num * q.den <= q.num * p.den

Zero == Frac(0, 1)

Hundred == Frac(100, 1)

Threshold == Frac(50, 1)

(***************************************************************************)
(* list(a_set): the iteration order of a set of str depends on the hash    *)
(* seed of the process.  Two of the orders a run can produce are modelled: *)
(* seed 0 lists the strings in ascending order, seed 1 in descending.      *)
(***************************************************************************)
HashSeeds == {0, 1}

RECURSIVE list(_, _)
list(S, seed) ==
    IF S = {} THEN <<>>
    ELSE LET first == CHOOSE a \in S : \A b \in S \ {a} :
                          IF seed = 0 THEN StrLess(a, b) ELSE StrLess(b, a)
         IN <<first>> \o list(S \ {first}, seed)

(***************************************************************************)
(* calculate_column_similarity                                             *)
(***************************************************************************)
\* set(col.astype(str))
str_set(col_clean) == {PyStr(col_clean[i]) : i \in 1..Len(col_clean)}

\* (len(common_values) / len(set1)) * 100
match_percentage(common_values, set1) ==
    IF Cardinality(set1) = 0 THEN Zero
    ELSE Frac(Cardinality(common_values) * 100, Cardinality(set1))

\* a variant that takes the union
union_of(set1, set2) == set1 \cup set2

\* set1.intersection(set2)
intersection(set1, set2) == set1 \cap set2

\* the early return for a column without values
no_values(col1_clean, col2_clean) == Len(col1_clean) = 0 \/ Len(col2_clean) = 0

\* a variant that divides by the target's distinct values
similarity_over_target(col1, col2, seed) ==
    LET col1_clean == DropNa(col1)
        col2_clean == DropNa(col2)
        set1 == str_set(col1_clean)
        set2 == str_set(col2_clean)
        common_values == intersection(set1, set2)
    IN  IF no_values(col1_clean, col2_clean)
        THEN [match_percentage |-> Zero, common_values |-> <<>>]
        ELSE [match_percentage |-> match_percentage(common_values, set2),
              common_values |-> list(common_values, seed)]

\* a variant that divides by the source's rows, not by its distinct values
similarity_over_rows(col1, col2, seed) ==
    LET col1_clean == DropNa(col1)
        col2_clean == DropNa(col2)
        set1 == str_set(col1_clean)
        set2 == str_set(col2_clean)
        common_values == intersection(set1, set2)
    IN  IF no_values(col1_clean, col2_clean)
        THEN [match_percentage |-> Zero, common_values |-> <<>>]
        ELSE [match_percentage |->
                  Frac(Cardinality(common_values) * 100, Len(col1_clean)),
              common_values |-> list(common_values, seed)]

calculate_column_similarity(col1, col2, seed) ==
    LET col1_clean == DropNa(col1)
        col2_clean == DropNa(col2)
        set1 == str_set(col1_clean)
        set2 == str_set(col2_clean)
        common_values == intersection(set1, set2)
    IN  IF no_values(col1_clean, col2_clean)
        THEN [match_percentage |-> Zero, common_values |-> <<>>]
        ELSE [match_percentage |-> match_percentage(common_values, set1),
              common_values |-> list(common_values, seed)]

(***************************************************************************)
(* analyze_relationships.  all_sheets_data is the dict as the sequence of  *)
(* its items [name, df], in insertion order.                               *)
(***************************************************************************)
\* "if i != j": a sheet is not compared with itself
sheets_compared(i, j) == i # j

\* "if col1 != col2"
columns_compared(col1, col2) == col1 # col2

\* a variant that lets a match of exactly 50 pass
reaches_threshold(pct) == PctLeq(Threshold, pct)

\* "if similarity['match_percentage'] > 50"
exceeds_threshold(pct) == PctLess(Threshold, pct)

\* the candidates of one ordered pair of sheets, col1 outer, col2 inner
sheet_pair_relationships(item1, item2, seed) ==
    LET df1 == item1.df
        df2 == item2.df
        n1 == Len(df1.columns)
        n2 == Len(df2.columns)
        one(a, b) ==
            LET similarity ==
                    calculate_column_similarity(df1.data[a], df2.data[b], seed)
            IN  IF columns_compared(df1.columns[a], df2.columns[b])
                   /\ exceeds_threshold(similarity.match_percentage)
                THEN <<[from_sheet |-> item1.name,
                        from_column |-> df1.columns[a],
                        to_sheet |-> item2.name,
                        to_column |-> df2.columns[b],
                        match_percentage |-> similarity.match_percentage,
                        common_values |-> similarity.common_values]>>
                ELSE <<>>
        inner[a \in 1..n1, b \in 0..n2] ==
            IF b = 0 THEN <<>> ELSE inner[a, b - 1] \o one(a, b)
        outer[a \in 0..n1] ==
            IF a = 0 THEN <<>> ELSE outer[a - 1] \o inner[a, n2]
    IN  outer[n1]

\* the appends of the nested loops, in the order they happen
appended_relationships(data, seed) ==
    LET n == Len(data)
        inner[i \in 1..n, j \in 0..n] ==
            IF j = 0 THEN <<>>
            ELSE inner[i, j - 1] \o
                 (IF sheets_compared(i, j)
                  THEN sheet_pair_relationships(data[i], data[j], seed)
                  ELSE <<>>)
        outer[i \in 0..n] ==
            IF i = 0 THEN <<>> ELSE outer[i - 1] \o inner[i, n]
    IN  outer[n]

\* list.sort(key=match_percentage, reverse=True): stable, so e goes behind
\* every element whose key is not smaller than its own
\* a variant that puts e ahead of the elements whose key equals its own
RECURSIVE insert_before_equal(_, _)
insert_before_equal(sorted, e) ==
    IF sorted = <<>> THEN <<e>>
    ELSE IF PctLeq(Head(sorted).match_percentage, e.match_percentage)
         THEN <<e>> \o sorted
         ELSE <<Head(sorted)>> \o insert_before_equal(Tail(sorted), e)

RECURSIVE insert_sorted(_, _)
insert_sorted(sorted, e) ==
    IF sorted = <<>> THEN <<e>>
    ELSE IF PctLess(Head(sorted).match_percentage, e.match_percentage)
         THEN <<e>> \o sorted
         ELSE <<Head(sorted)>> \o insert_sorted(Tail(sorted), e)

RECURSIVE sort_relationships(_)
sort_relationships(rels) ==
    IF rels = <<>> THEN <<>>
    ELSE insert_sorted(sort_relationships(SubSeq(rels, 1, Len(rels) - 1)),
                       rels[Len(rels)])

analyze_relationships(data, seed) ==
    sort_relationships(appended_relationships(data, seed))

(***************************************************************************)
(* The files analyze_excel_file writes.                                    *)
(***************************************************************************)
\* str.replace(old, new) for one-character old and new
replace(s, old, new) == [i \in 1..Len(s) |-> IF s[i] = old THEN new ELSE s[i]]

BackendDir == <<"/Users/mtz/Projects/GEP/backend/">>

WorkbookPath == <<"/Users/mtz/Projects/GEP/Gep DEMO DATA.xlsx">>

\* a variant that replaces "(" as well
csv_filename_parenthesis_replaced(sheet_name) ==
    BackendDir \o replace(replace(replace(sheet_name, " ", "_"), "/", "_"), "(", "_")
               \o <<"_", "d", "a", "t", "a", ".", "c", "s", "v">>

csv_filename(sheet_name) ==
    BackendDir \o replace(replace(sheet_name, " ", "_"), "/", "_")
               \o <<"_", "d", "a", "t", "a", ".", "c", "s", "v">>

\* open(path, 'w') and write: the file at path now holds content
write_file(files, path, content) ==
    {f \in files : f.path # path} \cup {[path |-> path, content |-> content]}

sheet_names == [k \in 1..Len(workbook) |-> workbook[k].name]

analysis_data ==
    [file_path |-> WorkbookPath,
     sheet_names |-> sheet_names,
     sheet_structures |-> sheet_structures,
     potential_relationships |-> potential_relationships,
     total_sheets |-> Len(sheet_names)]

(***************************************************************************)
(* The workbooks of the model.  A sheet is [name, columns, data, nrows],   *)
(* data holding one sequence of cells (as Excel stores them: blank, an     *)
(* integer or a text) per column.                                          *)
(***************************************************************************)
SheetA == <<"A">>

SheetB == <<"B">>

ColK == <<"k">>

ColX == <<"x">>

ColY == <<"y">>

ColZ == <<"z">>

ProfileCells == {NaN, IntCell(1), IntCell(2), StrCell(<<"1">>)}

Columns(cells, rows) == [1..rows -> cells]

Sheet(name, columns, data, nrows) ==
    [name |-> name, columns |-> columns, data |-> data, nrows |-> nrows]

\* one sheet, one column, every column over ProfileCells
OneSheetBooks ==
    UNION {{<<Sheet(SheetA, <<ColK>>, <<c>>, r)>> : c \in Columns(ProfileCells, r)} :
              r \in 0..MaxRows}

CellRank(c) == IF c.t = "nan" THEN 0 ELSE IF c.t = "str" THEN 10 ELSE c.n

\* the columns with their rows in non-decreasing order (analyze_relationships
\* reads a column only through the set of its values)
OrderedColumns(cells, rows) ==
    {c \in Columns(cells, rows) :
        \A i \in 1..(rows - 1) : CellRank(c[i]) <= CellRank(c[i + 1])}

RelCells == {IntCell(1), IntCell(2), IntCell(3)}

RelCellsNa == RelCells \cup {NaN, StrCell(<<"1">>)}

\* the sheets of one column named col
OneColumnSheets(name, col, cells) ==
    UNION {{Sheet(name, <<col>>, <<c>>, r) : c \in OrderedColumns(cells, r)} :
              r \in 0..MaxRelRows}

\* the sheets of two columns named col1 and col2
TwoColumnSheets(name, col1, col2, cells) ==
    UNION {{Sheet(name, <<col1, col2>>, <<p[1], p[2]>>, r) :
               p \in OrderedColumns(cells, r) \X OrderedColumns(cells, r)} :
              r \in 0..MaxRelRows}

\* two sheets of one column each, the columns named differently
TwoSheetBooksXY ==
    OneColumnSheets(SheetA, ColX, RelCellsNa) \X OneColumnSheets(SheetB, ColY, RelCellsNa)

\* two sheets of one column each, both columns named k
TwoSheetBooksKK ==
    OneColumnSheets(SheetA, ColK, RelCells) \X OneColumnSheets(SheetB, ColK, RelCells)

\* sheet A with columns x and z, sheet B with a column y
TwoSheetBooksXZY ==
    TwoColumnSheets(SheetA, ColX, ColZ, RelCells) \X OneColumnSheets(SheetB, ColY, RelCells)

Workbooks == OneSheetBooks \cup TwoSheetBooksXY \cup TwoSheetBooksKK \cup TwoSheetBooksXZY

(***************************************************************************)
(* analyze_excel_file                                                      *)
(***************************************************************************)
NoSim == [col1 |-> <<>>, col2 |-> <<>>, seed |-> 0]

NoSimOut == <<>>

NoType == <<>>

\* analyze_excel_file has not returned
NotReturned == <<>>

\* "return None, None, None"
NoneTriple == <<"None", "None", "None">>

\* "return all_sheets_data, sheet_structures, potential_relationships"
ReturnedTriple == <<"all_sheets_data", "sheet_structures", "potential_relationships">>

\* no generator script has run
NoGenerator ==
    /\ script = "none"
    /\ gen_pc = "idle"
    /\ analysis = <<>>
    /\ all_data = <<>>
    /\ sql_script = <<>>
    /\ sql_file = <<>>
    /\ report_file = <<>>

ExtractorStart ==
    /\ pc = "start"
    /\ all_sheets_data = <<>>
    /\ sheet_structures = <<>>
    /\ potential_relationships = <<>>
    /\ exported = 0

Init ==
    /\ workbook \in Workbooks
    /\ hash_seed \in HashSeeds
    /\ ExtractorStart
    /\ csv_files = {}
    /\ json_file = <<>>
    /\ prev_json = <<>>
    /\ sim_in = NoSim
    /\ sim_out = NoSimOut
    /\ type_in = NoType
    /\ type_out = NoType
    /\ result = NotReturned
    /\ NoGenerator

\* pd.ExcelFile(file_path), excel_file.sheet_names, the two empty dicts
OpenWorkbook ==
    /\ pc = "start"
    /\ pc' = "sheets"
    /\ UNCHANGED <<workbook, hash_seed, all_sheets_data, sheet_structures,
                   potential_relationships, csv_files, json_file, prev_json,
                   exported, sim_in, sim_out, type_in, type_out>>
    /\ UNCHANGED <<result, generator_vars>>

\* one iteration of "for sheet_name in sheet_names"
ProcessSheet ==
    /\ pc = "sheets"
    /\ Len(all_sheets_data) < Len(workbook)
    /\ LET sheet == workbook[Len(all_sheets_data) + 1]
           df == ReadExcel(sheet)
       IN  /\ all_sheets_data' =
                  Append(all_sheets_data, [name |-> sheet.name, df |-> df])
           /\ sheet_structures' =
                  Append(sheet_structures,
                         [name |-> sheet.name, structure |-> sheet_structure(df)])
    /\ UNCHANGED <<workbook, pc, hash_seed, potential_relationships, csv_files,
                   json_file, prev_json, exported, sim_in, sim_out, type_in,
                   type_out>>
    /\ UNCHANGED <<result, generator_vars>>

\* potential_relationships = analyze_relationships(all_sheets_data)
AnalyzeRelationships ==
    /\ pc = "sheets"
    /\ Len(all_sheets_data) = Len(workbook)
    /\ potential_relationships' = analyze_relationships(all_sheets_data, hash_seed)
    /\ pc' = "export"
    /\ UNCHANGED <<workbook, hash_seed, all_sheets_data, sheet_structures,
                   csv_files, json_file, prev_json, exported, sim_in, sim_out,
                   type_in, type_out>>
    /\ UNCHANGED <<result, generator_vars>>

\* one iteration of "for sheet_name, df in all_sheets_data.items()"
ExportCsv ==
    /\ pc = "export"
    /\ exported < Len(all_sheets_data)
    /\ LET item == all_sheets_data[exported + 1]
       IN  csv_files' = write_file(csv_files, csv_filename(item.name), item.name)
    /\ exported' = exported + 1
    /\ UNCHANGED <<workbook, pc, hash_seed, all_sheets_data, sheet_structures,
                   potential_relationships, json_file, prev_json, sim_in,
                   sim_out, type_in, type_out>>
    /\ UNCHANGED <<result, generator_vars>>

\* json.dump(analysis_data, f) and the return
WriteJson ==
    /\ pc = "export"
    /\ exported = Len(all_sheets_data)
    /\ json_file' = <<analysis_data>>
    /\ pc' = "done"
    /\ UNCHANGED <<workbook, hash_seed, all_sheets_data, sheet_structures,
                   potential_relationships, csv_files, prev_json, exported,
                   sim_in, sim_out, type_in, type_out>>
    /\ result' = ReturnedTriple
    /\ UNCHANGED generator_vars

Next ==
    \/ OpenWorkbook
    \/ ProcessSheet
    \/ AnalyzeRelationships
    \/ ExportCsv
    \/ WriteJson

Spec == Init /\ [][Next]_vars

(***************************************************************************)
(* A call of calculate_column_similarity on two Series.                    *)
(***************************************************************************)
SimCells == {NaN, IntCell(1), IntCell(2), StrCell(<<"1">>)}

IntSeries(lo, hi) == [i \in 1..(hi - lo + 1) |-> IntCell(lo + i - 1)]

\* a column X of 5 distinct values and a column Y of the same 5 and 3 more,
\* each also with some of its rows repeated
ExampleX == IntSeries(1, 5)

ExampleY == IntSeries(1, 8)

ExampleSeries ==
    {ExampleX, ExampleY,
     ExampleX \o IntSeries(1, 2),
     IntSeries(8, 8) \o ExampleY \o IntSeries(3, 5)}

\* the Series pd.read_excel makes of the columns of at most MaxSimLen cells
SmallSeries ==
    UNION {{ReadColumn(c) : c \in Columns(SimCells, r)} : r \in 0..MaxSimLen}

SimInputs ==
    [col1 : SmallSeries \cup ExampleSeries,
     col2 : SmallSeries \cup ExampleSeries,
     seed : HashSeeds]

Idle ==
    /\ workbook = <<>>
    /\ pc = "idle"
    /\ hash_seed = 0
    /\ all_sheets_data = <<>>
    /\ sheet_structures = <<>>
    /\ potential_relationships = <<>>
    /\ exported = 0
    /\ csv_files = {}
    /\ json_file = <<>>
    /\ prev_json = <<>>

InitSim ==
    /\ Idle
    /\ sim_in \in SimInputs
    /\ sim_out = NoSimOut
    /\ type_in = NoType
    /\ type_out = NoType
    /\ result = NotReturned
    /\ NoGenerator

CallSimilarity ==
    /\ pc = "idle"
    /\ sim_out = NoSimOut
    /\ sim_out' = <<calculate_column_similarity(sim_in.col1, sim_in.col2, sim_in.seed)>>
    /\ UNCHANGED <<workbook, pc, hash_seed, all_sheets_data, sheet_structures,
                   potential_relationships, csv_files, json_file, prev_json,
                   exported, sim_in, type_in, type_out>>
    /\ UNCHANGED <<result, generator_vars>>

NextSim == CallSimilarity

SpecSim == InitSim /\ [][NextSim]_vars

(***************************************************************************)
(* map_pandas_to_sql_type                                                  *)
(***************************************************************************)
\* "sub in s"
contains(s, sub) ==
    \E i \in 0..(Len(s) - Len(sub)) : SubSeq(s, i + 1, i + Len(sub)) = sub

\* s.endswith(suffix)
endswith(s, suffix) ==
    /\ Len(suffix) <= Len(s)
    /\ SubSeq(s, Len(s) - Len(suffix) + 1, Len(s)) = suffix

UpperCase == {Alphabet[i] : i \in CharCode("A")..CharCode("Z")}

\* s.lower()
lower(s) ==
    [i \in 1..Len(s) |->
        IF s[i] \in UpperCase
        THEN Alphabet[CharCode(s[i]) + CharCode("a") - CharCode("A")]
        ELSE s[i]]

RECURSIVE max_len_str(_)
max_len_str(values) ==
    IF Len(values) = 1 THEN Len(PyStr(values[1]))
    ELSE LET m == max_len_str(Tail(values))
             h == Len(PyStr(values[1]))
         IN  IF h > m THEN h ELSE m

BoolMaxUnique == 2

DefaultVarchar == 50

SamplePadding == 20

VarcharCap == 500

MaxVarchar == 255

INT_PRIMARY_KEY == <<"I", "N", "T", " ", "P", "R", "I", "M", "A", "R", "Y", " ", "K", "E", "Y">>

VARCHAR20_PRIMARY_KEY == <<"V", "A", "R", "C", "H", "A", "R", "(", "2", "0", ")", " ", "P", "R", "I", "M", "A", "R", "Y", " ", "K", "E", "Y">>

DATETIME == <<"D", "A", "T", "E", "T", "I", "M", "E">>

DATE == <<"D", "A", "T", "E">>

TIME == <<"T", "I", "M", "E">>

DECIMAL_10_2 == <<"D", "E", "C", "I", "M", "A", "L", "(", "1", "0", ",", "2", ")">>

TINYINT_1 == <<"T", "I", "N", "Y", "I", "N", "T", "(", "1", ")">>

BIGINT_PRIMARY_KEY == <<"B", "I", "G", "I", "N", "T", " ", "P", "R", "I", "M", "A", "R", "Y", " ", "K", "E", "Y">>

BIGINT == <<"B", "I", "G", "I", "N", "T">>

DECIMAL_15_4 == <<"D", "E", "C", "I", "M", "A", "L", "(", "1", "5", ",", "4", ")">>

TEXT == <<"T", "E", "X", "T">>

VARCHAR_255 == <<"V", "A", "R", "C", "H", "A", "R", "(", "2", "5", "5", ")">>

VARCHAR(n) == <<"V", "A", "R", "C", "H", "A", "R", "(">> \o IntStr(n) \o <<")">>

\* the rule for keys and codes
is_key_name(column_name) ==
    contains(column_name, <<"C", "o", "d", "e">>) \/ endswith(column_name, <<"_", "i", "d">>)

is_date_name(column_name) ==
    contains(column_name, <<"D", "a", "t", "e">>) \/ contains(lower(column_name), <<"d", "a", "t", "e">>)

is_time_name(column_name) ==
    contains(column_name, <<"T", "i", "m", "e">>) \/ contains(lower(column_name), <<"t", "i", "m", "e">>)

\* a variant that does not know "Value"
is_decimal_name_without_value(column_name) ==
    \/ contains(column_name, <<"H", "o", "u", "r", "s">>)
    \/ contains(column_name, <<"D", "u", "r", "a", "t", "i", "o", "n">>)
    \/ contains(column_name, <<"R", "e", "v", "e", "n", "u", "e">>)
    \/ contains(column_name, <<"P", "r", "i", "c", "e">>)

is_decimal_name(column_name) ==
    \/ contains(column_name, <<"H", "o", "u", "r", "s">>)
    \/ contains(column_name, <<"D", "u", "r", "a", "t", "i", "o", "n">>)
    \/ contains(column_name, <<"V", "a", "l", "u", "e">>)
    \/ contains(column_name, <<"R", "e", "v", "e", "n", "u", "e">>)
    \/ contains(column_name, <<"P", "r", "i", "c", "e">>)

is_int(dtype_str) == contains(dtype_str, <<"i", "n", "t">>)

\* a variant that leaves out the padding of 20
varchar_len_without_padding(values) ==
    IF Len(values) # 0
    THEN LET n == max_len_str(values)
         IN  IF n < VarcharCap THEN n ELSE VarcharCap
    ELSE DefaultVarchar

\* the VARCHAR length of an object column
varchar_len(values) ==
    IF Len(values) # 0
    THEN LET n == max_len_str(values) + SamplePadding
         IN  IF n < VarcharCap THEN n ELSE VarcharCap
    ELSE DefaultVarchar

\* a variant that tries the date rule before the key rule, and the
\* boolean rule before the decimal rule
map_date_rule_first(dtype_str, column_name, values, unique_count, row_count) ==
    IF is_date_name(column_name)
    THEN IF contains(dtype_str, <<"d", "a", "t", "e", "t", "i", "m", "e", "6", "4">>) THEN DATETIME ELSE DATE
    ELSE IF is_key_name(column_name)
    THEN IF is_int(dtype_str) THEN INT_PRIMARY_KEY ELSE VARCHAR20_PRIMARY_KEY
    ELSE IF is_time_name(column_name) THEN TIME
    ELSE IF unique_count <= BoolMaxUnique /\ is_int(dtype_str) THEN TINYINT_1
    ELSE IF is_decimal_name(column_name) THEN DECIMAL_10_2
    ELSE VARCHAR_255

map_pandas_to_sql_type(dtype_str, column_name, values, unique_count, row_count) ==
    IF is_key_name(column_name)
    THEN IF is_int(dtype_str) THEN INT_PRIMARY_KEY ELSE VARCHAR20_PRIMARY_KEY
    ELSE IF is_date_name(column_name)
    THEN IF contains(dtype_str, <<"d", "a", "t", "e", "t", "i", "m", "e", "6", "4">>) THEN DATETIME ELSE DATE
    ELSE IF is_time_name(column_name) THEN TIME
    ELSE IF is_decimal_name(column_name) THEN DECIMAL_10_2
    ELSE IF unique_count <= BoolMaxUnique /\ is_int(dtype_str) THEN TINYINT_1
    ELSE IF contains(dtype_str, <<"i", "n", "t", "6", "4">>)
    THEN IF unique_count = row_count THEN BIGINT_PRIMARY_KEY ELSE BIGINT
    ELSE IF contains(dtype_str, <<"f", "l", "o", "a", "t", "6", "4">>) THEN DECIMAL_15_4
    ELSE IF contains(dtype_str, <<"d", "a", "t", "e", "t", "i", "m", "e", "6", "4">>) THEN DATETIME
    ELSE IF contains(dtype_str, <<"o", "b", "j", "e", "c", "t">>)
    THEN IF varchar_len(values) > MaxVarchar THEN TEXT
         ELSE VARCHAR(varchar_len(values))
    ELSE VARCHAR_255

(***************************************************************************)
(* A call of map_pandas_to_sql_type.  A column name is made of at most     *)
(* MaxTokens of the fragments below.                                       *)
(***************************************************************************)
Tokens ==
    {<<"C", "o", "n", "t", "r", "a", "c", "t", " ">>,
     <<"V", "a", "l", "u", "e">>,
     <<"_", "C", "o", "d", "e">>,
     <<"D", "a", "t", "e">>,
     <<"D", "a", "t", "e", " ", "C", "o", "d", "e">>,
     <<"U", "p", "d", "a", "t", "e">>,
     <<"T", "i", "m", "e">>,
     <<"R", "u", "n", "t", "i", "m", "e">>,
     <<"_", "i", "d">>,
     <<"H", "o", "u", "r", "s">>,
     <<"D", "u", "r", "a", "t", "i", "o", "n">>,
     <<"R", "e", "v", "e", "n", "u", "e">>,
     <<"P", "r", "i", "c", "e">>}

RECURSIVE NamesOf(_)
NamesOf(n) ==
    IF n = 1 THEN Tokens
    ELSE NamesOf(n - 1) \cup {p \o t : p \in NamesOf(n - 1), t \in Tokens}

ColumnNames == NamesOf(MaxTokens)

Dtypes == {<<"i", "n", "t", "6", "4">>, <<"i", "n", "t", "3", "2">>, <<"f", "l", "o", "a", "t", "6", "4">>, <<"o", "b", "j", "e", "c", "t">>, <<"d", "a", "t", "e", "t", "i", "m", "e", "6", "4", "[", "n", "s", "]">>, <<"b", "o", "o", "l">>}

Repeat(c, n) == [i \in 1..n |-> c]

\* sample_values without a long string
ShortSampleLists ==
    {<<>>, <<StrCell(<<"a", "b">>), StrCell(<<"a", "b", "c">>)>>}

\* sample_values around the lengths at which the result changes
SampleLists ==
    ShortSampleLists \cup
    {<<IntCell(1)>>,
     <<StrCell(Repeat("a", MaxVarchar - SamplePadding)), StrCell(<<"a", "b">>)>>,
     <<StrCell(<<"a", "b">>), StrCell(Repeat("a", MaxVarchar - SamplePadding + 1))>>,
     <<StrCell(Repeat("a", VarcharCap - SamplePadding))>>,
     <<StrCell(Repeat("a", VarcharCap))>>}

\* unique_count and row_count of a column: nunique() is at most len(df)
Counts ==
    {c \in (0..(BoolMaxUnique + 1)) \X (0..(BoolMaxUnique + 1)) : c[1] <= c[2]}

\* the calls with every column name and short samples
NamedInputs ==
    {[dtype |-> d, column_name |-> n, sample_values |-> v,
      unique_count |-> c[1], row_count |-> c[2]] :
        d \in Dtypes, n \in ColumnNames, v \in ShortSampleLists, c \in Counts}

\* the calls with a one-fragment name and the longer samples
SampledInputs ==
    {[dtype |-> d, column_name |-> n, sample_values |-> v,
      unique_count |-> c[1], row_count |-> c[2]] :
        d \in Dtypes, n \in Tokens, v \in SampleLists \ ShortSampleLists, c \in Counts}

InitType ==
    /\ Idle
    /\ sim_in = NoSim
    /\ sim_out = NoSimOut
    /\ \/ type_in \in NamedInputs
       \/ type_in \in SampledInputs
    /\ type_out = NoType
    /\ result = NotReturned
    /\ NoGenerator

CallMapType ==
    /\ pc = "idle"
    /\ type_out = NoType
    /\ type_out' = <<map_pandas_to_sql_type(type_in.dtype, type_in.column_name,
                                            type_in.sample_values,
                                            type_in.unique_count,
                                            type_in.row_count)>>
    /\ UNCHANGED <<workbook, pc, hash_seed, all_sheets_data, sheet_structures,
                   potential_relationships, csv_files, json_file, prev_json,
                   exported, sim_in, sim_out, type_in>>
    /\ UNCHANGED <<result, generator_vars>>

NextType == CallMapType

SpecType == InitType /\ [][NextType]_vars

(***************************************************************************)
(* The script is run again on the same workbook: a new process, with a     *)
(* hash seed of its own, finds the files the previous run left.            *)
(***************************************************************************)
Rerun ==
    /\ pc = "done"
    /\ prev_json = <<>>
    /\ prev_json' = json_file
    /\ hash_seed' \in HashSeeds
    /\ pc' = "start"
    /\ all_sheets_data' = <<>>
    /\ sheet_structures' = <<>>
    /\ potential_relationships' = <<>>
    /\ exported' = 0
    /\ UNCHANGED <<workbook, csv_files, json_file, sim_in, sim_out, type_in,
                   type_out>>
    /\ result' = NotReturned
    /\ UNCHANGED generator_vars

NextRerun == Next \/ Rerun

SpecRerun == Init /\ [][NextRerun]_vars

(***************************************************************************)
(* The two generator scripts read the files the extractor wrote.  A        *)
(* generator runs when the extractor does not; an input file it opens is   *)
(* there or not, and an I/O operation of the extractor may fail.           *)
(***************************************************************************)
\* the path of open(..., 'w') in analyze_excel_file
json_filename == BackendDir \o <<"e", "x", "c", "e", "l", "_", "a", "n", "a", "l", "y", "s", "i", "s", ".", "j", "s", "o", "n">>
\* the exception of an I/O operation inside "try", "except Exception", and
\* "return None, None, None"
ExtractorFails ==
    /\ pc \in {"start", "sheets", "export"}
    /\ pc' = "failed"
    /\ result' = NoneTriple
    /\ UNCHANGED <<workbook, hash_seed, all_sheets_data, sheet_structures,
                   potential_relationships, csv_files, json_file, prev_json,
                   exported, sim_in, sim_out, type_in, type_out>>
    /\ UNCHANGED generator_vars

Scripts == {"sql_generator", "report"}

\* the path of open(..., 'r') in generate_sql_schema_and_data
sql_json_path == BackendDir \o <<"e", "x", "c", "e", "l", "_", "a", "n", "a", "l", "y", "s", "i", "s", ".", "j", "s", "o", "n">>

\* the path of open(..., 'r') in generate_comprehensive_report
report_json_path == BackendDir \o <<"e", "x", "c", "e", "l", "_", "a", "n", "a", "l", "y", "s", "i", "s", ".", "j", "s", "o", "n">>

json_path(s) == IF s = "sql_generator" THEN sql_json_path ELSE report_json_path

\* csv_files of generate_sql_schema_and_data, in the order of the dict
sql_csv_files ==
    <<
      [name |-> <<"C", "l", "i", "e", "n", "t">>,
       path |-> BackendDir \o <<"C", "l", "i", "e", "n", "t", "_", "d", "a", "t", "a", ".", "c", "s", "v">>],
      [name |-> <<"I", "n", "s", "t", "a", "l", "l", "a", "t", "i", "o", "n">>,
       path |-> BackendDir \o <<"I", "n", "s", "t", "a", "l", "l", "a", "t", "i", "o", "n", "_", "d", "a", "t", "a", ".", "c", "s", "v">>],
      [name |-> <<"C", "o", "n", "t", "r", "a", "c", "t">>,
       path |-> BackendDir \o <<"C", "o", "n", "t", "r", "a", "c", "t", "_", "d", "a", "t", "a", ".", "c", "s", "v">>],
      [name |-> <<"C", "o", "n", "t", "r", "a", "c", "t", " ", "S", "e", "r", "v", "i", "c", "e", " ", "(", "P", "r", "o", "j", "e", "c", "t", ")">>,
       path |-> BackendDir \o <<"C", "o", "n", "t", "r", "a", "c", "t", "_", "S", "e", "r", "v", "i", "c", "e", "_", "(", "P", "r", "o", "j", "e", "c", "t", ")", "_", "d", "a", "t", "a", ".", "c", "s", "v">>],
      [name |-> <<"I", "n", "s", "t", "a", "l", "l", "a", "t", "i", "o", "n", " ", "S", "e", "r", "v", "i", "c", "e", "s", " ", "(", "S", "u", "b", " ", "P", "r", "o", ")">>,
       path |-> BackendDir \o <<"I", "n", "s", "t", "a", "l", "l", "a", "t", "i", "o", "n", "_", "S", "e", "r", "v", "i", "c", "e", "s", "_", "(", "S", "u", "b", "_", "P", "r", "o", ")", "_", "d", "a", "t", "a", ".", "c", "s", "v">>],
      [name |-> <<"V", "i", "s", "i", "t", "s">>,
       path |-> BackendDir \o <<"V", "i", "s", "i", "t", "s", "_", "d", "a", "t", "a", ".", "c", "s", "v">>],
      [name |-> <<"R", "e", "s", "o", "u", "r", "c", "e", "s">>,
       path |-> BackendDir \o <<"R", "e", "s", "o", "u", "r", "c", "e", "s", "_", "d", "a", "t", "a", ".", "c", "s", "v">>]
    >>

\* csv_files of generate_comprehensive_report, in the order of the dict
report_csv_files ==
    <<
      [name |-> <<"C", "l", "i", "e", "n", "t">>,
       path |-> BackendDir \o <<"C", "l", "i", "e", "n", "t", "_", "d", "a", "t", "a", ".", "c", "s", "v">>],
      [name |-> <<"I", "n", "s", "t", "a", "l", "l", "a", "t", "i", "o", "n">>,
       path |-> BackendDir \o <<"I", "n", "s", "t", "a", "l", "l", "a", "t", "i", "o", "n", "_", "d", "a", "t", "a", ".", "c", "s", "v">>],
      [name |-> <<"C", "o", "n", "t", "r", "a", "c", "t">>,
       path |-> BackendDir \o <<"C", "o", "n", "t", "r", "a", "c", "t", "_", "d", "a", "t", "a", ".", "c", "s", "v">>],
      [name |-> <<"C", "o", "n", "t", "r", "a", "c", "t", " ", "S", "e", "r", "v", "i", "c", "e", " ", "(", "P", "r", "o", "j", "e", "c", "t", ")">>,
       path |-> BackendDir \o <<"C", "o", "n", "t", "r", "a", "c", "t", "_", "S", "e", "r", "v", "i", "c", "e", "_", "(", "P", "r", "o", "j", "e", "c", "t", ")", "_", "d", "a", "t", "a", ".", "c", "s", "v">>],
      [name |-> <<"I", "n", "s", "t", "a", "l", "l", "a", "t", "i", "o", "n", " ", "S", "e", "r", "v", "i", "c", "e", "s", " ", "(", "S", "u", "b", " ", "P", "r", "o", ")">>,
       path |-> BackendDir \o <<"I", "n", "s", "t", "a", "l", "l", "a", "t", "i", "o", "n", "_", "S", "e", "r", "v", "i", "c", "e", "s", "_", "(", "S", "u", "b", "_", "P", "r", "o", ")", "_", "d", "a", "t", "a", ".", "c", "s", "v">>],
      [name |-> <<"V", "i", "s", "i", "t", "s">>,
       path |-> BackendDir \o <<"V", "i", "s", "i", "t", "s", "_", "d", "a", "t", "a", ".", "c", "s", "v">>],
      [name |-> <<"R", "e", "s", "o", "u", "r", "c", "e", "s">>,
       path |-> BackendDir \o <<"R", "e", "s", "o", "u", "r", "c", "e", "s", "_", "d", "a", "t", "a", ".", "c", "s", "v">>]
    >>

csv_paths(s) == IF s = "sql_generator" THEN sql_csv_files ELSE report_csv_files

\* open(path, 'r') finds the file
json_exists(path) == path = json_filename /\ json_file # <<>>

\* pd.read_csv(path) finds the file
csv_exists(path) == \E f \in csv_files : f.path = path

read_csv(path) == (CHOOSE f \in csv_files : f.path = path).content

\* a statement of the script: its kind, the table it is about, the tables it
\* refers to besides
Statement(kind, table, references) ==
    [kind |-> kind, table |-> table, references |-> references]

Section(title) == Statement(title, <<>>, <<>>)

\* a variant that lists the child tables first
table_order_children_first ==
    <<<<"V", "i", "s", "i", "t", "s">>,
      <<"I", "n", "s", "t", "a", "l", "l", "a", "t", "i", "o", "n", " ", "S", "e", "r", "v", "i", "c", "e", "s", " ", "(", "S", "u", "b", " ", "P", "r", "o", ")">>,
      <<"C", "o", "n", "t", "r", "a", "c", "t", " ", "S", "e", "r", "v", "i", "c", "e", " ", "(", "P", "r", "o", "j", "e", "c", "t", ")">>,
      <<"C", "o", "n", "t", "r", "a", "c", "t">>,
      <<"I", "n", "s", "t", "a", "l", "l", "a", "t", "i", "o", "n">>,
      <<"R", "e", "s", "o", "u", "r", "c", "e", "s">>,
      <<"C", "l", "i", "e", "n", "t">>>>

\* table_order of generate_table_creation_sql
table_order ==
    <<<<"C", "l", "i", "e", "n", "t">>,
      <<"R", "e", "s", "o", "u", "r", "c", "e", "s">>,
      <<"I", "n", "s", "t", "a", "l", "l", "a", "t", "i", "o", "n">>,
      <<"C", "o", "n", "t", "r", "a", "c", "t">>,
      <<"C", "o", "n", "t", "r", "a", "c", "t", " ", "S", "e", "r", "v", "i", "c", "e", " ", "(", "P", "r", "o", "j", "e", "c", "t", ")">>,
      <<"I", "n", "s", "t", "a", "l", "l", "a", "t", "i", "o", "n", " ", "S", "e", "r", "v", "i", "c", "e", "s", " ", "(", "S", "u", "b", " ", "P", "r", "o", ")">>,
      <<"V", "i", "s", "i", "t", "s">>>>

\* table_order of generate_data_insertion_sql
insertion_table_order ==
    <<<<"C", "l", "i", "e", "n", "t">>,
      <<"R", "e", "s", "o", "u", "r", "c", "e", "s">>,
      <<"I", "n", "s", "t", "a", "l", "l", "a", "t", "i", "o", "n">>,
      <<"C", "o", "n", "t", "r", "a", "c", "t">>,
      <<"C", "o", "n", "t", "r", "a", "c", "t", " ", "S", "e", "r", "v", "i", "c", "e", " ", "(", "P", "r", "o", "j", "e", "c", "t", ")">>,
      <<"I", "n", "s", "t", "a", "l", "l", "a", "t", "i", "o", "n", " ", "S", "e", "r", "v", "i", "c", "e", "s", " ", "(", "S", "u", "b", " ", "P", "r", "o", ")">>,
      <<"V", "i", "s", "i", "t", "s">>>>

\* s.replace(old, '')
RECURSIVE remove(_, _)
remove(s, old) ==
    IF s = <<>> THEN <<>>
    ELSE IF Head(s) = old THEN remove(Tail(s), old)
    ELSE <<Head(s)>> \o remove(Tail(s), old)

safe_table_name(table_name) ==
    lower(remove(remove(replace(table_name, " ", "_"), "("), ")"))

\* "table_name in all_data"
loaded(data, table_name) == \E i \in 1..Len(data) : data[i].name = table_name

\* the loop of generate_table_creation_sql from the k-th table on
RECURSIVE table_creation_statements(_, _)
table_creation_statements(data, k) ==
    IF k > Len(table_order) THEN <<>>
    ELSE IF ~loaded(data, table_order[k])
    THEN table_creation_statements(data, k + 1)
    ELSE <<Statement("DROP TABLE IF EXISTS", safe_table_name(table_order[k]), <<>>),
           Statement("CREATE TABLE", safe_table_name(table_order[k]), <<>>)>>
         \o table_creation_statements(data, k + 1)

generate_table_creation_sql(data) ==
    <<Section("-- TABLE CREATION STATEMENTS")>> \o table_creation_statements(data, 1)

\* the loop of generate_data_insertion_sql from the k-th table on
RECURSIVE data_insertion_statements(_, _)
data_insertion_statements(data, k) ==
    IF k > Len(insertion_table_order) THEN <<>>
    ELSE IF ~loaded(data, insertion_table_order[k])
    THEN data_insertion_statements(data, k + 1)
    ELSE <<Statement("INSERT INTO", safe_table_name(insertion_table_order[k]), <<>>)>>
         \o data_insertion_statements(data, k + 1)

generate_data_insertion_sql(data) ==
    <<Section("-- DATA INSERTION STATEMENTS")>> \o data_insertion_statements(data, 1)

relationships ==
    <<
      [child_table |-> <<"i", "n", "s", "t", "a", "l", "l", "a", "t", "i", "o", "n">>,
       child_column |-> <<"c", "o", "m", "p", "a", "n", "y", "_", "c", "o", "d", "e">>,
       parent_table |-> <<"c", "l", "i", "e", "n", "t">>,
       parent_column |-> <<"c", "o", "m", "p", "a", "n", "y", "_", "c", "o", "d", "e">>],
      [child_table |-> <<"c", "o", "n", "t", "r", "a", "c", "t">>,
       child_column |-> <<"c", "o", "m", "p", "a", "n", "y", "_", "c", "o", "d", "e">>,
       parent_table |-> <<"c", "l", "i", "e", "n", "t">>,
       parent_column |-> <<"c", "o", "m", "p", "a", "n", "y", "_", "c", "o", "d", "e">>],
      [child_table |-> <<"c", "o", "n", "t", "r", "a", "c", "t", "_", "s", "e", "r", "v", "i", "c", "e", "_", "p", "r", "o", "j", "e", "c", "t">>,
       child_column |-> <<"c", "o", "n", "r", "t", "a", "c", "t", "_", "c", "o", "d", "e">>,
       parent_table |-> <<"c", "o", "n", "t", "r", "a", "c", "t">>,
       parent_column |-> <<"c", "o", "n", "t", "r", "a", "c", "t", "_", "c", "o", "d", "e">>],
      [child_table |-> <<"i", "n", "s", "t", "a", "l", "l", "a", "t", "i", "o", "n", "_", "s", "e", "r", "v", "i", "c", "e", "s", "_", "s", "u", "b", "_", "p", "r", "o">>,
       child_column |-> <<"c", "o", "n", "r", "t", "a", "c", "t", "_", "c", "o", "d", "e">>,
       parent_table |-> <<"c", "o", "n", "t", "r", "a", "c", "t">>,
       parent_column |-> <<"c", "o", "n", "t", "r", "a", "c", "t", "_", "c", "o", "d", "e">>],
      [child_table |-> <<"i", "n", "s", "t", "a", "l", "l", "a", "t", "i", "o", "n", "_", "s", "e", "r", "v", "i", "c", "e", "s", "_", "s", "u", "b", "_", "p", "r", "o">>,
       child_column |-> <<"i", "n", "s", "t", "a", "l", "l", "a", "t", "i", "o", "n", "_", "c", "o", "d", "e">>,
       parent_table |-> <<"i", "n", "s", "t", "a", "l", "l", "a", "t", "i", "o", "n">>,
       parent_column |-> <<"i", "n", "s", "t", "a", "l", "l", "a", "t", "i", "o", "n", "_", "c", "o", "d", "e">>],
      [child_table |-> <<"i", "n", "s", "t", "a", "l", "l", "a", "t", "i", "o", "n", "_", "s", "e", "r", "v", "i", "c", "e", "s", "_", "s", "u", "b", "_", "p", "r", "o">>,
       child_column |-> <<"r", "e", "r", "o", "u", "r", "c", "e", "_", "c", "o", "d", "e">>,
       parent_table |-> <<"r", "e", "s", "o", "u", "r", "c", "e", "s">>,
       parent_column |-> <<"r", "e", "s", "o", "u", "r", "c", "e", "_", "c", "o", "d", "e">>],
      [child_table |-> <<"v", "i", "s", "i", "t", "s">>,
       child_column |-> <<"r", "e", "r", "o", "u", "r", "c", "e", "_", "c", "o", "d", "e">>,
       parent_table |-> <<"r", "e", "s", "o", "u", "r", "c", "e", "s">>,
       parent_column |-> <<"r", "e", "s", "o", "u", "r", "c", "e", "_", "c", "o", "d", "e">>]
    >>

generate_foreign_key_constraints ==
    <<Section("-- FOREIGN KEY CONSTRAINTS")>> \o
    [k \in 1..Len(relationships) |->
        Statement("ALTER TABLE", relationships[k].child_table,
                  <<relationships[k].parent_table>>)]

\* the tables after FROM and JOIN in each sample query
sample_queries ==
    <<[from |-> <<"c", "o", "n", "t", "r", "a", "c", "t">>, join |-> <<"c", "l", "i", "e", "n", "t">>],
      [from |-> <<"i", "n", "s", "t", "a", "l", "l", "a", "t", "i", "o", "n">>, join |-> <<"c", "l", "i", "e", "n", "t">>],
      [from |-> <<"c", "o", "n", "t", "r", "a", "c", "t", "_", "s", "e", "r", "v", "i", "c", "e", "_", "p", "r", "o", "j", "e", "c", "t">>, join |-> <<"c", "o", "n", "t", "r", "a", "c", "t">>],
      [from |-> <<"r", "e", "s", "o", "u", "r", "c", "e", "s">>, join |-> <<"v", "i", "s", "i", "t", "s">>],
      [from |-> <<"v", "i", "s", "i", "t", "s">>, join |-> <<"r", "e", "s", "o", "u", "r", "c", "e", "s">>]>>

generate_sample_queries ==
    <<Section("-- SAMPLE QUERIES FOR TESTING")>> \o
    [k \in 1..Len(sample_queries) |->
        Statement("SELECT", sample_queries[k].from, <<sample_queries[k].join>>)]

\* the script generate_sql_schema_and_data puts together
complete_sql_script(data) ==
    <<Statement("SET FOREIGN_KEY_CHECKS", <<>>, <<>>)>>
    \o generate_table_creation_sql(data)
    \o generate_data_insertion_sql(data)
    \o generate_foreign_key_constraints
    \o generate_sample_queries

\* the workbooks of the pipeline: each sheet has one column k and one row
PipelineSheet(name) == Sheet(name, <<ColK>>, <<<<IntCell(1)>>>>, 1)

\* the seven sheets the generators expect
SevenSheetBook ==
    [k \in 1..Len(sql_csv_files) |-> PipelineSheet(sql_csv_files[k].name)]

Without(book, k) == SubSeq(book, 1, k - 1) \o SubSeq(book, k + 1, Len(book))

\* one of the seven sheets is not there
SixSheetBooks == {Without(SevenSheetBook, k) : k \in 1..Len(SevenSheetBook)}

OtherSheetNames ==
    {<<"S", "i", "t", "e", " ", "V", "i", "s", "i", "t", "s">>, <<"S", "i", "t", "e", "_", "V", "i", "s", "i", "t", "s">>, <<"V", "i", "s", "i", "t", "s", " ", "L", "o", "g">>}

\* two sheets with other names
TwoSheetBooks ==
    {<<PipelineSheet(n[1]), PipelineSheet(n[2])>> :
        n \in {m \in OtherSheetNames \X OtherSheetNames : m[1] # m[2]}}

PipelineBooks == {SevenSheetBook} \cup SixSheetBooks \cup TwoSheetBooks

InitPipeline ==
    /\ workbook \in PipelineBooks
    /\ hash_seed \in HashSeeds
    /\ ExtractorStart
    /\ csv_files = {}
    /\ json_file = <<>>
    /\ prev_json = <<>>
    /\ sim_in = NoSim
    /\ sim_out = NoSimOut
    /\ type_in = NoType
    /\ type_out = NoType
    /\ result = NotReturned
    /\ NoGenerator

extractor_vars ==
    <<workbook, pc, hash_seed, all_sheets_data, sheet_structures,
      potential_relationships, csv_files, json_file, prev_json, exported,
      sim_in, sim_out, type_in, type_out, result>>

\* no generator is running
GeneratorStopped == gen_pc \in {"idle", "returned", "raised"}

\* a step of the extractor
ExtractorStep == GeneratorStopped /\ Next

\* "python sql_generator.py" or "python comprehensive_analysis_report.py"
StartGenerator ==
    /\ pc \in {"start", "done", "failed"}
    /\ GeneratorStopped
    /\ script' \in Scripts
    /\ gen_pc' = "load_json"
    /\ analysis' = <<>>
    /\ all_data' = <<>>
    /\ sql_script' = <<>>
    /\ UNCHANGED <<sql_file, report_file>>
    /\ UNCHANGED extractor_vars

\* "with open(...) as f: analysis_data = json.load(f)"; no handler around it
LoadJson ==
    /\ gen_pc = "load_json"
    /\ IF json_exists(json_path(script))
       THEN /\ analysis' = json_file
            /\ gen_pc' = "read_csv"
       ELSE /\ gen_pc' = "raised"
            /\ UNCHANGED analysis
    /\ UNCHANGED <<script, all_data, sql_script, sql_file, report_file>>
    /\ UNCHANGED extractor_vars

\* one iteration of "for sheet_name, csv_path in csv_files.items()"
ReadCsv ==
    /\ gen_pc = "read_csv"
    /\ Len(all_data) < Len(csv_paths(script))
    /\ LET entry == csv_paths(script)[Len(all_data) + 1]
       IN  IF csv_exists(entry.path)
           THEN /\ all_data' = Append(all_data, [name |-> entry.name,
                                                 df |-> read_csv(entry.path)])
                /\ UNCHANGED gen_pc
           ELSE /\ gen_pc' = "raised"
                /\ UNCHANGED all_data
    /\ UNCHANGED <<script, analysis, sql_script, sql_file, report_file>>
    /\ UNCHANGED extractor_vars

\* the four sections, the write of gep_demo_complete.sql, "return sql_script"
GenerateSql ==
    /\ script = "sql_generator"
    /\ gen_pc = "read_csv"
    /\ Len(all_data) = Len(sql_csv_files)
    /\ sql_script' = complete_sql_script(all_data)
    /\ sql_file' = <<complete_sql_script(all_data)>>
    /\ gen_pc' = "returned"
    /\ UNCHANGED <<script, analysis, all_data, report_file>>
    /\ UNCHANGED extractor_vars

\* the report text and the write of comprehensive_analysis_report.md
GenerateReport ==
    /\ script = "report"
    /\ gen_pc = "read_csv"
    /\ Len(all_data) = Len(report_csv_files)
    /\ report_file' = <<[analysis_data |-> analysis[1], all_data |-> all_data]>>
    /\ gen_pc' = "returned"
    /\ UNCHANGED <<script, analysis, all_data, sql_script, sql_file>>
    /\ UNCHANGED extractor_vars

NextPipeline ==
    \/ ExtractorStep
    \/ ExtractorFails
    \/ StartGenerator
    \/ LoadJson
    \/ ReadCsv
    \/ GenerateSql
    \/ GenerateReport

SpecPipeline == InitPipeline /\ [][NextPipeline]_vars

(***************************************************************************)
(* Claims about calculate_column_similarity.                               *)
(***************************************************************************)
Missing(col) == {i \in 1..Len(col) : col[i].t = "nan"}

Present(col) == {i \in 1..Len(col) : col[i].t # "nan"}

SimPct == sim_out[1].match_percentage

\* the distinct strings of the non-missing entries of a column
Strings(col) == {PyStr(col[i]) : i \in Present(col)}

SourceStrings == Strings(sim_in.col1)

TargetStrings == Strings(sim_in.col2)

\* C3: for every pair of columns, empty and entirely missing columns
\* included, match_percentage is between 0 and 100 inclusive.
C3_MatchPercentageInRange ==
    sim_out # <<>> => PctLeq(Zero, SimPct) /\ PctLeq(SimPct, Hundred)

\* an entirely missing source column against a target with values
C3_Witness ==
    /\ sim_out # <<>>
    /\ Len(sim_in.col1) > 0
    /\ Present(sim_in.col1) = {}
    /\ TargetStrings # {}
    /\ SimPct = Zero

\* C4 as stated: whenever the source's set of distinct strings is a subset of
\* the target's, match_percentage is 100, also for a source or a target
\* without a non-missing value.
C4_SubsetGivesHundred ==
    (sim_out # <<>> /\ SourceStrings \subseteq TargetStrings) => SimPct = Hundred

\* C4 amended: for a source with at least one non-missing value whose set of
\* distinct strings is a subset of the target's, match_percentage is 100;
\* for a source without a non-missing value it is 0.
C4_NonEmptySubsetGivesHundred ==
    sim_out # <<>> =>
        /\ (SourceStrings # {} /\ SourceStrings \subseteq TargetStrings)
               => SimPct = Hundred
        /\ SourceStrings = {} => SimPct = Zero

\* a source with values whose strings are some, not all, of the target's
C4_Witness ==
    /\ sim_out # <<>>
    /\ SourceStrings # {}
    /\ SourceStrings \subseteq TargetStrings
    /\ SourceStrings # TargetStrings
    /\ Len(sim_in.col1) > Cardinality(SourceStrings)
    /\ SimPct = Hundred

\* the column without its repeated values: the first occurrence of each is kept
Distinct(col) ==
    SelectSeq([i \in 1..Len(col) |-> [c |-> col[i], first |-> \A j \in 1..(i - 1) : col[j] # col[i]]],
              LAMBDA e : e.first)

WithoutRepeats(col) == [i \in 1..Len(Distinct(col)) |-> Distinct(col)[i].c]

OneToFive == {IntStr(n) : n \in 1..5}

OneToEight == {IntStr(n) : n \in 1..8}

\* C5: match_percentage is the number of distinct strings of the source that
\* occur in the target, divided by the number of distinct strings of the
\* source, times 100; X of 5 distinct values against Y of the same 5 and 3
\* more gives 100, Y against X gives 62.5; repeated rows change nothing.
C5_DirectedOverDistinctValues ==
    sim_out # <<>> =>
        /\ SourceStrings # {} =>
               SimPct.num * Cardinality(SourceStrings)
                   = 100 * Cardinality({s \in SourceStrings : s \in TargetStrings}) * SimPct.den
        /\ (SourceStrings = OneToFive /\ TargetStrings = OneToEight)
               => SimPct = Hundred
        /\ (SourceStrings = OneToEight /\ TargetStrings = OneToFive)
               => SimPct = [num |-> 125, den |-> 2]
        /\ SimPct = calculate_column_similarity(WithoutRepeats(sim_in.col1),
                                                WithoutRepeats(sim_in.col2),
                                                sim_in.seed).match_percentage

\* Y, with repeated rows, against X: 62.5
C5_Witness ==
    /\ sim_out # <<>>
    /\ SourceStrings = OneToEight
    /\ TargetStrings = OneToFive
    /\ Len(sim_in.col1) > 8
    /\ SimPct = [num |-> 125, den |-> 2]

(***************************************************************************)
(* Claims about the column profiler.                                       *)
(***************************************************************************)
\* the Series of column k of the s-th sheet read
SeriesOf(s, k) == all_sheets_data[s].df.data[k]

InfoOf(s, k) == sheet_structures[s].structure.columns[k].info

RowsOf(s) == all_sheets_data[s].df.nrows

ProfiledColumns ==
    UNION {{<<s, k>> : k \in 1..Len(all_sheets_data[s].df.columns)} :
              s \in 1..Len(sheet_structures)}

DistinctValues(col) == {col[i] : i \in Present(col)}

\* C1: for every sheet and every column of it, potential_primary_key is true
\* if and only if the column has no missing value and the number of its
\* distinct values equals the sheet's row count.
C1_KeyFlagIffCompleteAndDistinct ==
    \A sk \in ProfiledColumns :
        LET col == SeriesOf(sk[1], sk[2]) IN
        InfoOf(sk[1], sk[2]).potential_primary_key
            <=> (Missing(col) = {} /\ Cardinality(DistinctValues(col)) = RowsOf(sk[1]))

\* a sheet of two rows or more with a flagged column, and a column without a
\* missing value that is not flagged (a repeated value)
C1_Witness ==
    /\ \E sk \in ProfiledColumns :
          /\ RowsOf(sk[1]) >= 2
          /\ InfoOf(sk[1], sk[2]).potential_primary_key
    /\ \E sk \in ProfiledColumns :
          /\ RowsOf(sk[1]) >= 2
          /\ Missing(SeriesOf(sk[1], sk[2])) = {}
          /\ ~InfoOf(sk[1], sk[2]).potential_primary_key

\* C2: every column without a non-missing value, whatever the row count of
\* its sheet (zero rows included), has unique_count 0 and is not flagged as a
\* potential primary key.
C2_EmptyColumnNeverKey ==
    \A sk \in ProfiledColumns :
        Present(SeriesOf(sk[1], sk[2])) = {}
            => /\ InfoOf(sk[1], sk[2]).unique_count = 0
               /\ ~InfoOf(sk[1], sk[2]).potential_primary_key

(***************************************************************************)
(* Claims about analyze_relationships.                                     *)
(***************************************************************************)
Analyzed == pc \in {"export", "done"}

Rel(p) == potential_relationships[p]

RelCount == Len(potential_relationships)

SheetCount == Len(all_sheets_data)

ColumnCount(i) == Len(all_sheets_data[i].df.columns)

\* the directed match percentage of column a of sheet i against column b of sheet j
Match(i, a, j, b) ==
    calculate_column_similarity(SeriesOf(i, a), SeriesOf(j, b), hash_seed).match_percentage

\* the result holds a candidate from column a of sheet i to column b of sheet j
IsCandidate(i, a, j, b) ==
    \E p \in 1..RelCount :
        /\ Rel(p).from_sheet = all_sheets_data[i].name
        /\ Rel(p).from_column = all_sheets_data[i].df.columns[a]
        /\ Rel(p).to_sheet = all_sheets_data[j].name
        /\ Rel(p).to_column = all_sheets_data[j].df.columns[b]

ColumnPairs ==
    UNION {{<<i, a, j, b>> : a \in 1..ColumnCount(i), b \in 1..ColumnCount(j)} :
              <<i, j>> \in {ij \in (1..SheetCount) \X (1..SheetCount) : ij[1] # ij[2]}}

\* C6: for every ordered pair of distinct sheets and every ordered pair of
\* their columns, same-named columns included, a candidate is in the result
\* whenever the directed match percentage exceeds 50.
C6_EveryMatchAboveHalfIsCandidate ==
    Analyzed =>
        \A q \in ColumnPairs :
            PctLess(Threshold, Match(q[1], q[2], q[3], q[4]))
                => IsCandidate(q[1], q[2], q[3], q[4])

SheetIndex(name) == CHOOSE i \in 1..SheetCount : all_sheets_data[i].name = name

ColumnIndex(sheet, col) ==
    CHOOSE k \in 1..ColumnCount(SheetIndex(sheet)) :
        all_sheets_data[SheetIndex(sheet)].df.columns[k] = col

\* where the nested loops stand when they reach a candidate
LoopPosition(r) ==
    <<SheetIndex(r.from_sheet), SheetIndex(r.to_sheet),
      ColumnIndex(r.from_sheet, r.from_column), ColumnIndex(r.to_sheet, r.to_column)>>

LexLess(u, v) ==
    \E k \in 1..Len(u) : u[k] < v[k] /\ \A m \in 1..(k - 1) : u[m] = v[m]

\* C7: the result is ordered by non-increasing match_percentage, and two
\* candidates of equal match_percentage stand in the order the nested loops
\* generated them (source sheet, target sheet, source column, target column).
C7_SortedDescendingStable ==
    Analyzed =>
        \A p, q \in 1..RelCount :
            p < q =>
                /\ PctLeq(Rel(q).match_percentage, Rel(p).match_percentage)
                /\ Rel(p).match_percentage = Rel(q).match_percentage
                       => LexLess(LoopPosition(Rel(p)), LoopPosition(Rel(q)))

\* a result with two candidates of equal percentage, and with a candidate
\* that the sort moved ahead of one generated before it
C7_Witness ==
    /\ Analyzed
    /\ \E p, q \in 1..RelCount :
          p < q /\ Rel(p).match_percentage = Rel(q).match_percentage
    /\ \E p, q \in 1..RelCount :
          /\ p < q
          /\ PctLess(Rel(q).match_percentage, Rel(p).match_percentage)
          /\ LexLess(LoopPosition(Rel(q)), LoopPosition(Rel(p)))

\* C8: symmetric pairs are not deduplicated: when the match of x against y
\* and the match of y against x both exceed 50, both candidates are in the
\* result; and no (sheet, column, sheet, column) tuple appears twice.
C8_SymmetricPairsBothKept ==
    Analyzed =>
        /\ \A q \in ColumnPairs :
              (/\ PctLess(Threshold, Match(q[1], q[2], q[3], q[4]))
               /\ PctLess(Threshold, Match(q[3], q[4], q[1], q[2])))
                  => /\ IsCandidate(q[1], q[2], q[3], q[4])
                     /\ IsCandidate(q[3], q[4], q[1], q[2])
        /\ \A p, q \in 1..RelCount :
              p # q =>
                  <<Rel(p).from_sheet, Rel(p).from_column, Rel(p).to_sheet, Rel(p).to_column>>
                      # <<Rel(q).from_sheet, Rel(q).from_column, Rel(q).to_sheet, Rel(q).to_column>>

\* C9: two runs of the extractor on the same workbook write the same JSON
\* summary, the order of every common_values list included.
C9_RerunWritesSameJson ==
    (pc = "done" /\ prev_json # <<>>) => json_file = prev_json

(***************************************************************************)
(* Claims about map_pandas_to_sql_type.                                    *)
(***************************************************************************)
SqlType == type_out[1]

ContractValue == <<"C", "o", "n", "t", "r", "a", "c", "t", " ", "V", "a", "l", "u", "e">>

IntegerDtypes == {<<"i", "n", "t", "6", "4">>, <<"i", "n", "t", "3", "2">>}

EndsInCode(name) ==
    Len(name) >= 5 /\ SubSeq(name, Len(name) - 4, Len(name)) = <<"_", "C", "o", "d", "e">>

\* C10: a column named "Contract Value" with float storage maps to
\* DECIMAL(10,2), and every column whose name ends in "_Code" with integer
\* storage maps to INT PRIMARY KEY, whatever sample_values, unique_count and
\* row_count are.
C10_ContractValueDecimalCodeKey ==
    type_out # <<>> =>
        /\ (type_in.column_name = ContractValue /\ type_in.dtype = <<"f", "l", "o", "a", "t", "6", "4">>)
               => SqlType = DECIMAL_10_2
        /\ (EndsInCode(type_in.column_name) /\ type_in.dtype \in IntegerDtypes)
               => SqlType = INT_PRIMARY_KEY

\* "Contract Value" with float storage and at most two distinct values
C10_Witness ==
    /\ type_out # <<>>
    /\ type_in.column_name = ContractValue
    /\ type_in.dtype = <<"f", "l", "o", "a", "t", "6", "4">>
    /\ type_in.unique_count <= BoolMaxUnique
    /\ type_in.sample_values # <<>>
    /\ SqlType = DECIMAL_10_2

(***************************************************************************)
(* More claims about map_pandas_to_sql_type.                               *)
(***************************************************************************)
\* the word occurs in the name, letter for letter
HasWord(name, w) ==
    \E i \in 1..Len(name) :
        /\ i + Len(w) - 1 <= Len(name)
        /\ \A k \in 1..Len(w) : name[i + k - 1] = w[k]

\* the word occurs in the name with each letter in either of its two cases
HasWordAnyCase(name, small, capital) ==
    \E i \in 1..Len(name) :
        /\ i + Len(small) - 1 <= Len(name)
        /\ \A k \in 1..Len(small) : name[i + k - 1] \in {small[k], capital[k]}

DecimalWords ==
    {<<"H", "o", "u", "r", "s">>, <<"D", "u", "r", "a", "t", "i", "o", "n">>, <<"V", "a", "l", "u", "e">>, <<"R", "e", "v", "e", "n", "u", "e">>, <<"P", "r", "i", "c", "e">>}

KeyRule(name) ==
    \/ HasWord(name, <<"C", "o", "d", "e">>)
    \/ (Len(name) >= 3 /\ <<name[Len(name) - 2], name[Len(name) - 1], name[Len(name)]>> = <<"_", "i", "d">>)

DateRule(name) == HasWordAnyCase(name, <<"d", "a", "t", "e">>, <<"D", "A", "T", "E">>)

TimeRule(name) == HasWordAnyCase(name, <<"t", "i", "m", "e">>, <<"T", "I", "M", "E">>)

DecimalRule(name) == \E w \in DecimalWords : HasWord(name, w)

BoolRule(in) == in.unique_count <= 2 /\ in.dtype \in IntegerDtypes

DateCode == <<"D", "a", "t", "e", " ", "C", "o", "d", "e">>

\* VARCHAR(n) for the lengths up to 255, and for the lengths above
ShortVarchars == {VARCHAR(n) : n \in 1..255}

LongVarchars == {VARCHAR(n) : n \in 256..(VarcharCap + SamplePadding)}

\* the types the storage type alone can give
StorageTypes(dtype) ==
    IF dtype = <<"i", "n", "t", "6", "4">> THEN {BIGINT_PRIMARY_KEY, BIGINT}
    ELSE IF dtype = <<"f", "l", "o", "a", "t", "6", "4">> THEN {DECIMAL_15_4}
    ELSE IF dtype = <<"d", "a", "t", "e", "t", "i", "m", "e", "6", "4", "[", "n", "s", "]">> THEN {DATETIME}
    ELSE IF dtype = <<"o", "b", "j", "e", "c", "t">> THEN {TEXT} \cup ShortVarchars
    ELSE {VARCHAR_255}

\* C13: the rules apply in a fixed priority: a name with "Code" or ending in
\* "_id" gets a key type; else a name with "date" in any letter case gets
\* DATETIME or DATE; else a name with "time" in any letter case gets TIME;
\* else a name with Hours, Duration, Value, Revenue or Price gets
\* DECIMAL(10,2); else at most 2 distinct values with integer storage give
\* TINYINT(1); else the storage type decides.  "Date Code" gets a key type,
\* and a name matched by one of the four name rules never gets TINYINT(1).
C13_RulesInFixedPriority ==
    type_out # <<>> =>
        LET name == type_in.column_name
            named == KeyRule(name) \/ DateRule(name) \/ TimeRule(name) \/ DecimalRule(name)
        IN  /\ KeyRule(name) => SqlType \in {INT_PRIMARY_KEY, VARCHAR20_PRIMARY_KEY}
            /\ (~KeyRule(name) /\ DateRule(name)) => SqlType \in {DATETIME, DATE}
            /\ (~KeyRule(name) /\ ~DateRule(name) /\ TimeRule(name)) => SqlType = TIME
            /\ (~KeyRule(name) /\ ~DateRule(name) /\ ~TimeRule(name) /\ DecimalRule(name))
                   => SqlType = DECIMAL_10_2
            /\ (~named /\ BoolRule(type_in)) => SqlType = TINYINT_1
            /\ (~named /\ ~BoolRule(type_in)) => SqlType \in StorageTypes(type_in.dtype)
            /\ name = DateCode => SqlType \in {INT_PRIMARY_KEY, VARCHAR20_PRIMARY_KEY}
            /\ named => SqlType # TINYINT_1

\* "Date Code" with integer storage and at most 2 distinct values
C13_Witness ==
    /\ type_out # <<>>
    /\ type_in.column_name = DateCode
    /\ BoolRule(type_in)
    /\ SqlType = INT_PRIMARY_KEY

\* the length of the longest sample value, written as a string
Longest(values) ==
    CHOOSE m \in {Len(PyStr(values[i])) : i \in 1..Len(values)} :
        \A i \in 1..Len(values) : Len(PyStr(values[i])) <= m

Unnamed(name) ==
    ~(KeyRule(name) \/ DateRule(name) \/ TimeRule(name) \/ DecimalRule(name))

\* C14: an object column that no name rule matches gets VARCHAR(n) with n
\* the longest sample string's length plus 20 when that is at most 255, TEXT
\* when it is more, and VARCHAR(50) when there is no sample value; no
\* VARCHAR length returned, for any column, is above 255.
C14_VarcharFromSamples ==
    type_out # <<>> =>
        /\ (type_in.dtype = <<"o", "b", "j", "e", "c", "t">> /\ Unnamed(type_in.column_name)) =>
               SqlType = IF type_in.sample_values = <<>> THEN VARCHAR(50)
                         ELSE IF Longest(type_in.sample_values) + 20 <= 255
                              THEN VARCHAR(Longest(type_in.sample_values) + 20)
                              ELSE TEXT
        /\ SqlType \notin LongVarchars

\* an object column whose longest sample has 235 characters: VARCHAR(255)
C14_Witness ==
    /\ type_out # <<>>
    /\ type_in.dtype = <<"o", "b", "j", "e", "c", "t">>
    /\ Unnamed(type_in.column_name)
    /\ type_in.sample_values # <<>>
    /\ Longest(type_in.sample_values) = 235
    /\ SqlType = VARCHAR(255)

(***************************************************************************)
(* More claims about analyze_relationships and the profiler.               *)
(***************************************************************************)
\* the columns a candidate names: column a of sheet i, column b of sheet j
NamedBy(r) ==
    {q \in ColumnPairs :
        /\ all_sheets_data[q[1]].name = r.from_sheet
        /\ all_sheets_data[q[1]].df.columns[q[2]] = r.from_column
        /\ all_sheets_data[q[3]].name = r.to_sheet
        /\ all_sheets_data[q[3]].df.columns[q[4]] = r.to_column}

\* C12: every candidate has from_sheet different from to_sheet, names columns
\* that exist in those sheets and has a match_percentage above 50, which is
\* the match of the columns it names; a pair of columns whose match is
\* exactly 50 is no candidate.
C12_CandidatesAreSound ==
    Analyzed =>
        /\ \A p \in 1..RelCount :
              /\ Rel(p).from_sheet # Rel(p).to_sheet
              /\ NamedBy(Rel(p)) # {}
              /\ \A q \in NamedBy(Rel(p)) :
                    Rel(p).match_percentage = Match(q[1], q[2], q[3], q[4])
              /\ Rel(p).match_percentage.num > 50 * Rel(p).match_percentage.den
        /\ \A q \in ColumnPairs :
              Match(q[1], q[2], q[3], q[4]) = Threshold
                  => ~IsCandidate(q[1], q[2], q[3], q[4])

\* a result with a candidate, while another pair of differently named
\* columns matches at exactly 50
C12_Witness ==
    /\ Analyzed
    /\ RelCount > 0
    /\ \E q \in ColumnPairs :
          /\ Match(q[1], q[2], q[3], q[4]) = Threshold
          /\ all_sheets_data[q[1]].df.columns[q[2]] # all_sheets_data[q[3]].df.columns[q[4]]

\* the index of the j-th non-missing entry of a column
NthPresent(col, j) ==
    CHOOSE i \in Present(col) : Cardinality({k \in Present(col) : k <= i}) = j

Min(a, b) == IF a < b THEN a ELSE b

\* C15: in every column-stats record non_null_count + null_count is the
\* sheet's row count, unique_count is at most non_null_count, and
\* sample_values is the first min(5, non_null_count) non-missing values of the
\* column in row order.
C15_ColumnStatsConsistent ==
    \A sk \in ProfiledColumns :
        LET col == SeriesOf(sk[1], sk[2])
            info == InfoOf(sk[1], sk[2])
        IN  /\ info.non_null_count + info.null_count = RowsOf(sk[1])
            /\ info.non_null_count = Cardinality(Present(col))
            /\ info.unique_count <= info.non_null_count
            /\ Len(info.sample_values) <= 5
            /\ Len(info.sample_values) = Min(5, info.non_null_count)
            /\ \A j \in 1..Len(info.sample_values) :
                  info.sample_values[j] = col[NthPresent(col, j)]

\* a column of more than 5 non-missing values, of which 5 are sampled
C15_Witness ==
    \E sk \in ProfiledColumns :
        /\ InfoOf(sk[1], sk[2]).non_null_count > 5
        /\ Len(InfoOf(sk[1], sk[2]).sample_values) = 5

(***************************************************************************)
(* Claims about the three scripts together.                                *)
(***************************************************************************)
\* C11: an error in any of the three scripts is caught at the script's
\* top-level function, which returns instead of letting the exception out:
\* the extractor returns (None, None, None), and no exception leaves
\* generate_sql_schema_and_data or generate_comprehensive_report.
C11_ErrorsCaughtAtTopLevel ==
    /\ pc = "failed" => result = NoneTriple
    /\ gen_pc # "raised"

NameOf(k) == workbook[k].name

\* C16: two exported sheets with different names got different CSV file
\* names, so there are as many files as sheets the export loop has written.
C16_DistinctSheetsDistinctFiles ==
    /\ \A i, j \in 1..exported :
          NameOf(i) # NameOf(j) => csv_filename(NameOf(i)) # csv_filename(NameOf(j))
    /\ Cardinality(csv_files) = exported

HardcodedNames ==
    {<<"C", "l", "i", "e", "n", "t">>, <<"I", "n", "s", "t", "a", "l", "l", "a", "t", "i", "o", "n">>, <<"C", "o", "n", "t", "r", "a", "c", "t">>,
     <<"C", "o", "n", "t", "r", "a", "c", "t", " ", "S", "e", "r", "v", "i", "c", "e", " ", "(", "P", "r", "o", "j", "e", "c", "t", ")">>,
     <<"I", "n", "s", "t", "a", "l", "l", "a", "t", "i", "o", "n", " ", "S", "e", "r", "v", "i", "c", "e", "s", " ", "(", "S", "u", "b", " ", "P", "r", "o", ")">>,
     <<"V", "i", "s", "i", "t", "s">>, <<"R", "e", "s", "o", "u", "r", "c", "e", "s">>}

\* C17: for each of the seven sheet names, the CSV path each generator reads
\* is the path the extractor writes for a sheet of that name, and the JSON
\* path each generator reads is the one the extractor writes; when the JSON
\* file is there, every sheet has been profiled and exported.
C17_GeneratorsReadWhatExtractorWrites ==
    /\ \A s \in Scripts :
          /\ {csv_paths(s)[k].name : k \in 1..Len(csv_paths(s))} = HardcodedNames
          /\ \A k \in 1..Len(csv_paths(s)) :
                csv_paths(s)[k].path = csv_filename(csv_paths(s)[k].name)
          /\ json_path(s) = json_filename
    /\ json_file # <<>> =>
          /\ Len(sheet_structures) = Len(workbook)
          /\ exported = Len(workbook)
          /\ \A k \in 1..Len(workbook) : csv_exists(csv_filename(NameOf(k)))
    /\ \A k \in 1..Len(all_data) :
          \E i \in 1..Len(workbook) :
              /\ NameOf(i) = all_data[k].name
              /\ exported >= i

\* the SQL generator has read the JSON file and the seven CSV files that the
\* extractor wrote
C17_Witness ==
    /\ script = "sql_generator"
    /\ gen_pc = "returned"
    /\ result = ReturnedTriple
    /\ analysis = json_file
    /\ {all_data[k].name : k \in 1..Len(all_data)} = HardcodedNames

\* the positions of the statements of a kind
Of(kind) == {k \in 1..Len(sql_script) : sql_script[k].kind = kind}

At(kind) == CHOOSE k \in Of(kind) : TRUE

\* the tables of the statements of a kind, in the order of the script
TablesOf(kind) ==
    LET F[k \in 0..Len(sql_script)] ==
            IF k = 0 THEN <<>>
            ELSE IF sql_script[k].kind = kind
                 THEN Append(F[k - 1], sql_script[k].table)
                 ELSE F[k - 1]
    IN  F[Len(sql_script)]

\* where the table is created
Created(table) ==
    {k \in Of("CREATE TABLE") : sql_script[k].table = table}

\* the place of a table name in table_order
PlaceOf(table) ==
    {k \in 1..Len(table_order) : safe_table_name(table_order[k]) = table}

\* C18: the script has its four sections in the order creation, insertion,
\* foreign keys, queries, each with its own statements; tables are created
\* and populated in the same order, that of table_order; the parent table of
\* every foreign key is created before its child and precedes it in
\* table_order; and every statement comes after the creation of the tables
\* it names.
C18_SqlInDependencyOrder ==
    sql_script # <<>> =>
        /\ Cardinality(Of("-- TABLE CREATION STATEMENTS")) = 1
        /\ Cardinality(Of("-- DATA INSERTION STATEMENTS")) = 1
        /\ Cardinality(Of("-- FOREIGN KEY CONSTRAINTS")) = 1
        /\ Cardinality(Of("-- SAMPLE QUERIES FOR TESTING")) = 1
        /\ \A k \in Of("CREATE TABLE") :
              /\ At("-- TABLE CREATION STATEMENTS") < k
              /\ k < At("-- DATA INSERTION STATEMENTS")
        /\ \A k \in Of("INSERT INTO") :
              /\ At("-- DATA INSERTION STATEMENTS") < k
              /\ k < At("-- FOREIGN KEY CONSTRAINTS")
        /\ \A k \in Of("ALTER TABLE") :
              /\ At("-- FOREIGN KEY CONSTRAINTS") < k
              /\ k < At("-- SAMPLE QUERIES FOR TESTING")
        /\ \A k \in Of("SELECT") : At("-- SAMPLE QUERIES FOR TESTING") < k
        /\ TablesOf("CREATE TABLE") = TablesOf("INSERT INTO")
        /\ TablesOf("CREATE TABLE") =
               [k \in 1..Len(table_order) |-> safe_table_name(table_order[k])]
        /\ \A k \in Of("ALTER TABLE") :
              /\ \E p \in Created(sql_script[k].references[1]) :
                    \E c \in Created(sql_script[k].table) : p < c
              /\ \E p \in PlaceOf(sql_script[k].references[1]) :
                    \E c \in PlaceOf(sql_script[k].table) : p < c
        /\ \A k \in Of("INSERT INTO") \cup Of("ALTER TABLE") \cup Of("SELECT") :
              /\ \E c \in Created(sql_script[k].table) : c < k
              /\ \A r \in 1..Len(sql_script[k].references) :
                    \E c \in Created(sql_script[k].references[r]) : c < k

\* a script with foreign keys, one of them from
\* installation_services_sub_pro to resources
C18_Witness ==
    /\ gen_pc = "returned"
    /\ sql_file = <<sql_script>>
    /\ \E k \in Of("ALTER TABLE") :
          /\ sql_script[k].table = <<"i", "n", "s", "t", "a", "l", "l", "a", "t", "i", "o", "n", "_", "s", "e", "r", "v", "i", "c", "e", "s", "_", "s", "u", "b", "_", "p", "r", "o">>
          /\ sql_script[k].references = <<<<"r", "e", "s", "o", "u", "r", "c", "e", "s">>>>

====
